---- MODULE Spec2Model ----
(***************************************************************************)
(* Model of the skypeparser utilities:                                     *)
(*   src/src/utils/file_handler.py  (JSON / tar readers and extractors)    *)
(*   src/src/utils/config.py        (layered configuration, message types) *)
(* Strings are TLA+ strings; a character of s is SubSeq(s, i, i).          *)
(***************************************************************************)
EXTENDS Integers, Sequences, FiniteSets, TLC

VARIABLES
    \* ---- read_tarfile / read_tarfile_object ----
    pc,              \* position inside the running call
    entry,           \* which function the caller invoked
    tar_contents,    \* tar.getnames(): archive member names in listing order
    select_json,     \* argument: <<>> is None, <<n>> is the integer n
    auto_select,     \* argument
    tar_files,       \* the JSON candidates computed by the filter
    selected_index,  \* <<>> while unset, <<i>> once chosen
    outcome,         \* what the body of the call produced (value or exception)
    delivered,       \* what the caller received
    temp,            \* the temporary file: "none", "exists", "deleted"
    events,          \* history of the calls' side effects, in order
    prompts,         \* number of rejected interactive inputs so far
    \* ---- extract_tar_contents / extract_tar_object ----
    xpc,             \* position inside the running call
    xentry,          \* which function the caller invoked
    xmembers,        \* tar.getmembers(): member names in archive order
    xoutput_dir,     \* argument: <<>> is None, <<d>> is the string d
    xpattern,        \* argument file_pattern: <<>> is None, <<p>> is the string p
    xfilter,         \* the runtime's default extraction filter of extractall
    xselected,       \* the members left after the pattern filter
    xnext,           \* how many of them extractall has handled
    disk,            \* resolved paths of the files written so far
    dirs,            \* resolved paths of the directories that exist
    xtemp,           \* the temporary file of extract_tar_object
    xresult,         \* the value returned or the exception raised
    \* ---- read_file_object ----
    spc,             \* position inside the running call
    doc,             \* the JSON document whose serialization the stream holds
    stream,          \* file_obj: its mode, data, read position, seekability
                     \* (handed_at records the position the caller left it at)
    content,         \* what file_obj.read() gave: <<>> before the read
    sresult,         \* the value returned or the exception raised
    \* ---- load_config / get_message_type_description ----
    cpc,             \* "idle", "loaded", "load_raised", "described"
    config_file,     \* argument: what the path names (see ConfigFiles)
    message_types_file,  \* argument: what the path names
    environ,         \* os.environ: variable -> <<>> (unset) or <<value>>
    config,          \* the config returned by load_config
    cerror,          \* the exception load_config raised, "" when none
    msg_type,        \* argument of get_message_type_description
    description,     \* its return value or exception
    \* ---- load_config on objects with identity ----
    heap,            \* the dict objects of the process: address -> items
    calls,           \* the load_config calls made so far, with their results
    nmut             \* how many times callers changed a returned config

tarVars == <<pc, entry, tar_contents, select_json, auto_select, tar_files,
             selected_index, outcome, delivered, temp, events, prompts>>
exVars == <<xpc, xentry, xmembers, xoutput_dir, xpattern, xfilter, xselected,
            xnext, disk, dirs, xtemp, xresult>>
streamVars == <<spc, doc, stream, content, sresult>>
cfgVars == <<cpc, config_file, message_types_file, environ, config, cerror,
             msg_type, description>>
heapVars == <<heap, calls, nmut>>
vars == <<tarVars, exVars, streamVars, cfgVars, heapVars>>

\* Each group of functions works on its own part of the state.
TarOnly == UNCHANGED <<exVars, streamVars, cfgVars, heapVars>>
ExtractOnly == UNCHANGED <<tarVars, streamVars, cfgVars, heapVars>>
StreamOnly == UNCHANGED <<tarVars, exVars, cfgVars, heapVars>>
ConfigOnly == UNCHANGED <<tarVars, exVars, streamVars, heapVars>>
HeapOnly == UNCHANGED <<tarVars, exVars, streamVars, cfgVars>>

(***************************************************************************)
(* Bounds of the model.                                                    *)
(***************************************************************************)
MaxMembers == 2
MaxSelect == 2
MaxPrompts == 2
MaxArrayLen == 2
MaxOverrides == 2
MaxCalls == 2
MaxMutations == 2

NoOutcome == [kind |-> "none", val |-> ""]
Return(v) == [kind |-> "return", val |-> v]
Raise(e) == [kind |-> "raise", val |-> e]

RECURSIVE SeqsUpTo(_, _)
SeqsUpTo(S, n) ==
    IF n = 0 THEN {<<>>}
    ELSE LET shorter == SeqsUpTo(S, n - 1)
         IN shorter \cup {Append(s, x) : s \in {t \in shorter : Len(t) = n - 1}, x \in S}

(***************************************************************************)
(* read_tarfile and read_tarfile_object                                    *)
(***************************************************************************)
\* Member names an archive may list.
MemberNames == {"a.json", "b.json", "a.json.bak", "x.jsonl", "A.JSON", "notes.txt"}

Listings == SeqsUpTo(MemberNames, MaxMembers)

SelectArgs == {<<>>} \cup {<<n>> : n \in (0 - 1)..MaxSelect}

\* re.compile(r'.*\.json').match(name): match() anchors at the start of the
\* name only; '.*' is any run of characters other than newline, then the
\* literal ".json"; nothing is required of what follows.
JsonPatternMatch(name) ==
    \E i \in 0..(Len(name) - 5) :
        /\ \A k \in 1..i : SubSeq(name, k, k) # "\n"
        /\ SubSeq(name, i + 1, i + 5) = ".json"

\* list(filter(pattern.match, tar_contents))
JsonCandidates(contents) == SelectSeq(contents, JsonPatternMatch)

\* ChooseIndex without the range test on select_json.
ChooseIndexUnchecked(files, sel, auto) ==
    IF Len(files) > 1
    THEN IF sel # <<>> THEN <<sel[1]>>
         ELSE IF auto THEN <<0>>
         ELSE <<>>
    ELSE <<0>>

\* The selection of lines 114-136 up to the prompt: <<i>> for a chosen index,
\* <<>> when the interactive prompt has to decide.
ChooseIndex(files, sel, auto) ==
    IF Len(files) > 1
    THEN IF sel # <<>> /\ 0 <= sel[1] /\ sel[1] < Len(files) THEN <<sel[1]>>
         ELSE IF auto THEN <<0>>
         ELSE <<>>
    ELSE <<0>>

\* int(selection): digits with an optional sign give the number, anything
\* else raises ValueError (<<>>).
DigitValue(c) ==
    CASE c = "0" -> 0 [] c = "1" -> 1 [] c = "2" -> 2 [] c = "3" -> 3
      [] c = "4" -> 4 [] c = "5" -> 5 [] c = "6" -> 6 [] c = "7" -> 7
      [] c = "8" -> 8 [] c = "9" -> 9 [] OTHER -> 0 - 1

IsDigits(s) == Len(s) > 0 /\ \A k \in 1..Len(s) : DigitValue(SubSeq(s, k, k)) >= 0

RECURSIVE DigitsToInt(_)
DigitsToInt(s) ==
    IF Len(s) = 0 THEN 0
    ELSE 10 * DigitsToInt(SubSeq(s, 1, Len(s) - 1)) + DigitValue(SubSeq(s, Len(s), Len(s)))

ParseInt(s) ==
    IF IsDigits(s) THEN <<DigitsToInt(s)>>
    ELSE IF Len(s) > 1 /\ SubSeq(s, 1, 1) = "-" /\ IsDigits(Tail(s))
         THEN <<0 - DigitsToInt(Tail(s))>>
    ELSE IF Len(s) > 1 /\ SubSeq(s, 1, 1) = "+" /\ IsDigits(Tail(s))
         THEN <<DigitsToInt(Tail(s))>>
    ELSE <<>>

PromptInputs == {"1", "2", "3", "0", "-1", "x", ""}

TarIdle ==
    /\ pc = "idle" /\ entry = "" /\ tar_contents = <<>> /\ select_json = <<>>
    /\ auto_select = TRUE /\ tar_files = <<>> /\ selected_index = <<>>
    /\ outcome = NoOutcome /\ delivered = NoOutcome /\ temp = "none"
    /\ events = <<>> /\ prompts = 0

\* A caller invokes read_tarfile(filename, select_json, auto_select).
CallReadTarfile ==
    /\ TarOnly
    /\ pc = "idle"
    /\ entry' = "read_tarfile"
    /\ tar_contents' \in Listings
    /\ select_json' \in SelectArgs
    /\ auto_select' \in BOOLEAN
    /\ pc' = "open"
    /\ UNCHANGED <<tar_files, selected_index, outcome, delivered, temp, events, prompts>>

\* A caller invokes read_tarfile_object(file_obj, select_json, auto_select):
\* NamedTemporaryFile(delete=False) creates the temporary file, or fails
\* before anything exists.
CallReadTarfileObject ==
    /\ TarOnly
    /\ pc = "idle"
    /\ entry' = "read_tarfile_object"
    /\ tar_contents' \in Listings
    /\ select_json' \in SelectArgs
    /\ auto_select' \in BOOLEAN
    /\ \/ /\ temp' = "exists"
          /\ events' = Append(events, "create")
          /\ pc' = "seek"
          /\ UNCHANGED <<outcome, delivered>>
       \/ /\ outcome' = Raise("OSError")
          /\ delivered' = Raise("OSError")
          /\ events' = Append(events, "deliver")
          /\ pc' = "done"
          /\ UNCHANGED temp
    /\ UNCHANGED <<tar_files, selected_index, prompts>>

\* The body of a call ends with outcome o after the side effects `done`:
\* read_tarfile's own handlers log an exception and re-raise it unchanged;
\* under read_tarfile_object the finally clause runs next.
BodyEnds(o, done) ==
    /\ outcome' = o
    /\ IF entry = "read_tarfile_object"
       THEN /\ pc' = "finally"
            /\ events' = events \o done \o <<"body_end">>
            /\ UNCHANGED delivered
       ELSE /\ pc' = "done"
            /\ events' = events \o done \o <<"deliver">>
            /\ delivered' = o

\* file_obj.seek(0); file_obj.read()
SeekAndRead ==
    /\ TarOnly
    /\ pc = "seek"
    /\ \/ /\ pc' = "write"
          /\ UNCHANGED <<outcome, delivered, events>>
       \/ BodyEnds(Raise("StreamError"), <<>>)
    /\ UNCHANGED <<entry, tar_contents, select_json, auto_select, tar_files,
                   selected_index, temp, prompts>>

\* temp_file.write(...); temp_file.flush()
WriteTemp ==
    /\ TarOnly
    /\ pc = "write"
    /\ \/ /\ pc' = "open"
          /\ UNCHANGED <<outcome, delivered, events>>
       \/ BodyEnds(Raise("OSError"), <<>>)
    /\ UNCHANGED <<entry, tar_contents, select_json, auto_select, tar_files,
                   selected_index, temp, prompts>>

\* tarfile.open(filename): the bytes are a tar archive, or ReadError.
OpenTar ==
    /\ TarOnly
    /\ pc = "open"
    /\ \/ /\ pc' = "filter"
          /\ UNCHANGED <<outcome, delivered, events>>
       \/ BodyEnds(Raise("ReadError"), <<>>)
    /\ UNCHANGED <<entry, tar_contents, select_json, auto_select, tar_files,
                   selected_index, temp, prompts>>

\* FilterStep without the "no JSON files" test.
FilterStepNoEmptyTest(contents) ==
    /\ tar_files' = JsonCandidates(contents)
    /\ pc' = "select"
    /\ UNCHANGED <<outcome, delivered, events>>

\* Lines 103-111: list the names, keep the candidates, fail when none.
FilterStep(contents) ==
    LET files == JsonCandidates(contents)
    IN /\ tar_files' = files
       /\ IF files = <<>>
          THEN BodyEnds(Raise("IndexError: No JSON files found in the tar archive"), <<>>)
          ELSE /\ pc' = "select"
               /\ UNCHANGED <<outcome, delivered, events>>

FilterMembers ==
    /\ TarOnly
    /\ pc = "filter"
    /\ FilterStep(tar_contents)
    /\ UNCHANGED <<entry, tar_contents, select_json, auto_select,
                   selected_index, temp, prompts>>

\* Lines 114-136 without the prompt loop.
SelectMember ==
    /\ TarOnly
    /\ pc = "select"
    /\ LET idx == ChooseIndex(tar_files, select_json, auto_select)
       IN IF idx = <<>>
          THEN /\ pc' = "prompt"
               /\ events' = Append(events, "prompt")
               /\ UNCHANGED selected_index
          ELSE /\ pc' = "extract"
               /\ selected_index' = idx
               /\ UNCHANGED events
    /\ UNCHANGED <<entry, tar_contents, select_json, auto_select, tar_files,
                   outcome, delivered, temp, prompts>>

\* PromptStep that leaves the loop with any number that was typed.
PromptStepAnyNumber(selection) ==
    LET n == ParseInt(selection)
    IN IF n = <<>>
       THEN /\ prompts < MaxPrompts
            /\ prompts' = prompts + 1
            /\ UNCHANGED <<pc, selected_index>>
       ELSE /\ selected_index' = <<n[1] - 1>>
            /\ pc' = "extract" /\ UNCHANGED prompts

\* Lines 126-134: one round of the prompt loop.  selected_index is assigned
\* before the range test, so a rejected number stays in it until the next round.
PromptStep(selection) ==
    LET n == ParseInt(selection)
    IN IF n = <<>>
       THEN /\ prompts < MaxPrompts
            /\ prompts' = prompts + 1
            /\ UNCHANGED <<pc, selected_index>>
       ELSE /\ selected_index' = <<n[1] - 1>>
            /\ IF 0 <= n[1] - 1 /\ n[1] - 1 < Len(tar_files)
               THEN pc' = "extract" /\ UNCHANGED prompts
               ELSE /\ prompts < MaxPrompts
                    /\ prompts' = prompts + 1
                    /\ UNCHANGED pc

\* input() gives a line, or raises EOFError when standard input is at its
\* end; EOFError is not a ValueError, so it leaves the loop and the call.
Prompt ==
    /\ TarOnly
    /\ pc = "prompt"
    /\ \/ /\ \E selection \in PromptInputs : PromptStep(selection)
          /\ UNCHANGED <<outcome, delivered, events>>
       \/ /\ BodyEnds(Raise("EOFError"), <<>>)
          /\ UNCHANGED <<selected_index, prompts>>
    /\ UNCHANGED <<entry, tar_contents, select_json, auto_select, tar_files, temp>>

\* Lines 139-144: extractfile may give None (the member is not a file), the
\* bytes may fail to decode or parse, or the parsed document is returned.
\* The returned document is identified by the member it was read from.
ExtractMember ==
    /\ TarOnly
    /\ pc = "extract"
    /\ \/ BodyEnds(Return(tar_files[selected_index[1] + 1]), <<"extract">>)
       \/ BodyEnds(Raise("KeyError"), <<"extract">>)
       \/ BodyEnds(Raise("JSONDecodeError"), <<"extract">>)
    /\ UNCHANGED <<entry, tar_contents, select_json, auto_select, tar_files,
                   selected_index, temp, prompts>>
\* Cleanup whose unlink failure escapes instead of being logged.
CleanupUnlinkRaises(o) ==
    \/ /\ temp' = "deleted"
       /\ events' = events \o <<"unlink", "deliver">>
       /\ delivered' = o
    \/ /\ temp' = temp
       /\ events' = events \o <<"unlink", "deliver">>
       /\ delivered' = Raise("OSError")

\* Lines 188-193: the finally clause.  os.unlink is attempted; when it fails
\* the failure is logged as a warning and swallowed.  Then the outcome of
\* the body reaches the caller.
Cleanup(o) ==
    /\ \/ /\ temp' = "deleted"
          /\ events' = events \o <<"unlink", "deliver">>
       \/ /\ temp' = temp
          /\ events' = events \o <<"unlink", "warning", "deliver">>
    /\ delivered' = o

Finally ==
    /\ TarOnly
    /\ pc = "finally"
    /\ Cleanup(outcome)
    /\ pc' = "done"
    /\ UNCHANGED <<entry, tar_contents, select_json, auto_select, tar_files,
                   selected_index, outcome, prompts>>

(***************************************************************************)
(* extract_tar_contents and extract_tar_object                             *)
(***************************************************************************)
Char(s, i) == SubSeq(s, i, i)

HasSlash(p) == \E i \in 1..Len(p) : Char(p, i) = "/"

FirstSlash(p) ==
    CHOOSE i \in 1..Len(p) : Char(p, i) = "/" /\ \A k \in 1..(i - 1) : Char(p, k) # "/"

\* p.split('/')
RECURSIVE SplitPath(_)
SplitPath(p) ==
    IF ~HasSlash(p) THEN <<p>>
    ELSE <<SubSeq(p, 1, FirstSlash(p) - 1)>>
         \o SplitPath(SubSeq(p, FirstSlash(p) + 1, Len(p)))

\* Path resolution as the kernel (and os.path.realpath without symbolic
\* links) does it: "" and "." are skipped, ".." drops the last segment and
\* stays at the root.
RECURSIVE NormSegments(_, _)
NormSegments(segs, stack) ==
    IF segs = <<>> THEN stack
    ELSE LET seg == Head(segs)
         IN IF seg = "" \/ seg = "." THEN NormSegments(Tail(segs), stack)
            ELSE IF seg = ".."
                 THEN NormSegments(Tail(segs),
                                   IF stack = <<>> THEN stack
                                   ELSE SubSeq(stack, 1, Len(stack) - 1))
            ELSE NormSegments(Tail(segs), Append(stack, seg))

IsAbs(p) == Len(p) > 0 /\ Char(p, 1) = "/"

\* The process's working directory, against which relative paths resolve.
Cwd == "/w"

\* The resolved path, as the sequence of its segments below the root.
Resolve(p) ==
    IF IsAbs(p) THEN NormSegments(SplitPath(p), <<>>)
    ELSE NormSegments(SplitPath(Cwd) \o SplitPath(p), <<>>)

\* os.path.join(a, b)
PathJoin(a, b) ==
    IF IsAbs(b) THEN b
    ELSE IF a = "" \/ Char(a, Len(a)) = "/" THEN a \o b
    ELSE a \o "/" \o b

IsUnder(target, root) ==
    Len(target) >= Len(root) /\ SubSeq(target, 1, Len(root)) = root

\* name.lstrip('/')
RECURSIVE LStripSlash(_)
LStripSlash(name) == IF IsAbs(name) THEN LStripSlash(Tail(name)) ELSE name

\* Member names of the archives handed to the extractors.
XMemberNames == {"a.json", "d/b.txt", "../../etc/passwd", "d/../c.json", "/abs.json"}

XListings == SeqsUpTo(XMemberNames, MaxMembers)

OutputDirs == {<<>>, <<"">>, <<"out">>}

\* The file patterns of the model: none, the empty string, the JSON pattern
\* and a literal.
FilePatterns == {<<>>, <<"">>, <<".*\\.json">>, <<"d/">>}

\* re.compile(file_pattern).match(name) for the patterns of the model: the
\* JSON pattern as in read_tarfile, a literal as a prefix test.
PatternMatch(p, name) ==
    IF p = ".*\\.json" THEN JsonPatternMatch(name)
    ELSE Len(name) >= Len(p) /\ SubSeq(name, 1, Len(p)) = p

\* Lines 214-216: an absent or empty pattern keeps every member.
FilterByPattern(members, pat) ==
    IF pat = <<>> \/ pat[1] = "" THEN members
    ELSE LET Keep(name) == PatternMatch(pat[1], name)
         IN SelectSeq(members, Keep)

\* if output_dir: (None and "" are both false)
Truthy(opt) == opt # <<>> /\ opt[1] # ""

\* TarFile.extractall handles one member under the runtime's default filter.
\* fully_trusted (the default before Python 3.14): the member is written at
\* os.path.join(path, name), wherever that resolves.  data (the default
\* from Python 3.14): leading slashes are stripped, and a target resolving
\* outside the destination raises OutsideDestinationError; the members
\* handled before stay on disk.
TargetOf(flt, dir, name) ==
    IF flt = "data" THEN Resolve(PathJoin(dir, LStripSlash(name)))
    ELSE Resolve(PathJoin(dir, name))

FilterRejects(flt, dir, name) ==
    flt = "data" /\ ~IsUnder(TargetOf(flt, dir, name), Resolve(dir))

XBodyEnds(o) ==
    /\ xresult' = o
    /\ xpc' = IF xentry = "extract_tar_object" THEN "finally" ELSE "done"

ExIdle ==
    /\ xpc = "idle" /\ xentry = "" /\ xmembers = <<>> /\ xoutput_dir = <<>>
    /\ xpattern = <<>> /\ xfilter = "" /\ xselected = <<>> /\ xnext = 0
    /\ disk = {} /\ dirs = {} /\ xtemp = "none" /\ xresult = NoOutcome

\* A caller invokes extract_tar_contents(tar_filename, output_dir, file_pattern);
\* the output directory may or may not exist already.
CallExtractTarContents ==
    /\ ExtractOnly
    /\ xpc = "idle"
    /\ xentry' = "extract_tar_contents"
    /\ xmembers' \in XListings
    /\ xoutput_dir' \in OutputDirs
    /\ xpattern' \in FilePatterns
    /\ xfilter' \in {"fully_trusted", "data"}
    /\ dirs' \in {{}, {Resolve("out")}}
    /\ xpc' = "open"
    /\ UNCHANGED <<xselected, xnext, disk, xtemp, xresult>>

\* A caller invokes extract_tar_object(file_obj, output_dir, file_pattern):
\* the temporary file is created, then the stream is copied into it.
CallExtractTarObject ==
    /\ ExtractOnly
    /\ xpc = "idle"
    /\ xentry' = "extract_tar_object"
    /\ xmembers' \in XListings
    /\ xoutput_dir' \in OutputDirs
    /\ xpattern' \in FilePatterns
    /\ xfilter' \in {"fully_trusted", "data"}
    /\ dirs' \in {{}, {Resolve("out")}}
    /\ xtemp' = "exists"
    /\ xpc' = "copy"
    /\ UNCHANGED <<xselected, xnext, disk, xresult>>

\* Lines 250-254: seek, read, write, flush.
XCopyStream ==
    /\ ExtractOnly
    /\ xpc = "copy"
    /\ \/ xpc' = "open" /\ UNCHANGED xresult
       \/ XBodyEnds(Raise("StreamError"))
    /\ UNCHANGED <<xentry, xmembers, xoutput_dir, xpattern, xfilter, xselected,
                   xnext, disk, dirs, xtemp>>

\* Lines 209-224 up to extractall: open, list, filter; without an output
\* directory the names are returned, with one it is created.
XOpenAndFilter ==
    /\ ExtractOnly
    /\ xpc = "open"
    /\ \/ /\ XBodyEnds(Raise("ReadError"))
          /\ UNCHANGED <<xselected, dirs>>
       \/ LET members == FilterByPattern(xmembers, xpattern)
          IN /\ xselected' = members
             /\ IF Truthy(xoutput_dir)
                THEN /\ dirs' = dirs \cup {Resolve(xoutput_dir[1])}
                     /\ xpc' = "extractall"
                     /\ UNCHANGED xresult
                ELSE /\ XBodyEnds(Return(members))
                     /\ UNCHANGED dirs
    /\ UNCHANGED <<xentry, xmembers, xoutput_dir, xpattern, xfilter, xnext,
                   disk, xtemp>>

\* Line 221, one member of tar.extractall(path=output_dir, members=members).
ExtractOne(flt, dir, name) ==
    IF FilterRejects(flt, dir, name)
    THEN /\ XBodyEnds(Raise("OutsideDestinationError"))
         /\ UNCHANGED <<disk, xnext>>
    ELSE /\ disk' = disk \cup {TargetOf(flt, dir, name)}
         /\ xnext' = xnext + 1
         /\ UNCHANGED <<xpc, xresult>>

XExtractMember ==
    /\ ExtractOnly
    /\ xpc = "extractall"
    /\ xnext < Len(xselected)
    /\ ExtractOne(xfilter, xoutput_dir[1], xselected[xnext + 1])
    /\ UNCHANGED <<xentry, xmembers, xoutput_dir, xpattern, xfilter, xselected,
                   dirs, xtemp>>

\* Line 222: the paths returned after extractall.
XReturnPaths ==
    /\ ExtractOnly
    /\ xpc = "extractall"
    /\ xnext = Len(xselected)
    /\ XBodyEnds(Return([i \in 1..Len(xselected) |->
                            PathJoin(xoutput_dir[1], xselected[i])]))
    /\ UNCHANGED <<xentry, xmembers, xoutput_dir, xpattern, xfilter, xselected,
                   xnext, disk, dirs, xtemp>>

\* Lines 258-263: the finally clause of extract_tar_object.
XFinally ==
    /\ ExtractOnly
    /\ xpc = "finally"
    /\ xtemp' \in {"deleted", "exists"}
    /\ xpc' = "done"
    /\ UNCHANGED <<xentry, xmembers, xoutput_dir, xpattern, xfilter, xselected,
                   xnext, disk, dirs, xresult>>

NextExtract ==
    \/ CallExtractTarContents
    \/ CallExtractTarObject
    \/ XCopyStream
    \/ XOpenAndFilter
    \/ XExtractMember
    \/ XReturnPaths
    \/ XFinally

(***************************************************************************)
(* read_file_object                                                        *)
(* Text is a sequence of Unicode code points, bytes a sequence of 0..255.  *)
(* An object's members are a function from keys (texts) to values, so      *)
(* equality of values is deep equality.                                    *)
(***************************************************************************)
Ord(c) ==
    CASE c = " " -> 32 [] c = "\"" -> 34 [] c = "," -> 44 [] c = "-" -> 45
      [] c = "0" -> 48 [] c = "1" -> 49 [] c = "2" -> 50 [] c = "3" -> 51
      [] c = "4" -> 52 [] c = "5" -> 53 [] c = "6" -> 54 [] c = "7" -> 55
      [] c = "8" -> 56 [] c = "9" -> 57 [] c = ":" -> 58 [] c = "[" -> 91
      [] c = "\\" -> 92 [] c = "]" -> 93 [] c = "a" -> 97 [] c = "e" -> 101
      [] c = "f" -> 102 [] c = "k" -> 107 [] c = "l" -> 108 [] c = "n" -> 110
      [] c = "r" -> 114 [] c = "s" -> 115 [] c = "t" -> 116 [] c = "u" -> 117
      [] c = "{" -> 123 [] c = "}" -> 125

Text(s) == [i \in 1..Len(s) |-> Ord(Char(s, i))]

\* Every value carries every field, each field of one type: t the kind, b a
\* boolean, n a number, s a string's text, a an array's elements, o an
\* object's members.
JValue(t, b, n, s, a, o) == [t |-> t, b |-> b, n |-> n, s |-> s, a |-> a, o |-> o]
JNull == JValue("null", FALSE, 0, <<>>, <<>>, <<>>)
JBool(b) == JValue("bool", b, 0, <<>>, <<>>, <<>>)
JNum(n) == JValue("num", FALSE, n, <<>>, <<>>, <<>>)
JStr(s) == JValue("str", FALSE, 0, s, <<>>, <<>>)
JArr(a) == JValue("arr", FALSE, 0, <<>>, a, <<>>)
JObj(f) == JValue("obj", FALSE, 0, <<>>, <<>>, f)

RECURSIVE NatToText(_)
NatToText(n) ==
    IF n < 10 THEN <<48 + n>>
    ELSE Append(NatToText(n \div 10), 48 + (n % 10))

IntToText(n) == IF n < 0 THEN <<45>> \o NatToText(0 - n) ELSE NatToText(n)

\* json.dumps of a string with ensure_ascii=False: quote and backslash are
\* escaped, every other code point of the model is written as it is.
RECURSIVE EscapeText(_)
EscapeText(s) ==
    IF s = <<>> THEN <<>>
    ELSE (IF Head(s) = 34 \/ Head(s) = 92 THEN <<92, Head(s)>> ELSE <<Head(s)>>)
         \o EscapeText(Tail(s))

QuoteText(s) == <<34>> \o EscapeText(s) \o <<34>>

\* toStream: json.dumps(d, ensure_ascii=False), members in some fixed order.
RECURSIVE Dumps(_), DumpsElems(_), DumpsMembers(_, _)
Dumps(d) ==
    CASE d.t = "null" -> Text("null")
      [] d.t = "bool" -> IF d.b THEN Text("true") ELSE Text("false")
      [] d.t = "num" -> IntToText(d.n)
      [] d.t = "str" -> QuoteText(d.s)
      [] d.t = "arr" -> Text("[") \o DumpsElems(d.a) \o Text("]")
      [] d.t = "obj" -> Text("{") \o DumpsMembers(d.o, DOMAIN d.o) \o Text("}")

DumpsElems(a) ==
    IF a = <<>> THEN <<>>
    ELSE IF Len(a) = 1 THEN Dumps(a[1])
    ELSE Dumps(a[1]) \o Text(", ") \o DumpsElems(Tail(a))

DumpsMembers(f, keys) ==
    IF keys = {} THEN <<>>
    ELSE LET k == CHOOSE x \in keys : TRUE
             rest == keys \ {k}
         IN QuoteText(k) \o Text(": ") \o Dumps(f[k])
            \o (IF rest = {} THEN <<>> ELSE Text(", ") \o DumpsMembers(f, rest))

\* str.encode('utf-8')
RECURSIVE Utf8Encode(_)
Utf8Encode(txt) ==
    IF txt = <<>> THEN <<>>
    ELSE LET cp == Head(txt)
         IN (IF cp < 128 THEN <<cp>>
             ELSE IF cp < 2048 THEN <<192 + (cp \div 64), 128 + (cp % 64)>>
             ELSE <<224 + (cp \div 4096), 128 + ((cp \div 64) % 64), 128 + (cp % 64)>>)
            \o Utf8Encode(Tail(txt))

IsCont(b) == b >= 128 /\ b < 192

\* bytes.decode('utf-8'): [ok |-> TRUE, text |-> ...] or a UnicodeDecodeError.
RECURSIVE Utf8Decode(_, _)
Utf8Decode(bs, acc) ==
    IF bs = <<>> THEN [ok |-> TRUE, text |-> acc]
    ELSE LET b == Head(bs)
         IN IF b < 128 THEN Utf8Decode(Tail(bs), Append(acc, b))
            ELSE IF b >= 194 /\ b < 224 /\ Len(bs) >= 2 /\ IsCont(bs[2])
                 THEN Utf8Decode(SubSeq(bs, 3, Len(bs)),
                                 Append(acc, (b - 192) * 64 + (bs[2] - 128)))
            ELSE IF b >= 224 /\ b < 240 /\ Len(bs) >= 3 /\ IsCont(bs[2]) /\ IsCont(bs[3])
                      /\ (b - 224) * 4096 + (bs[2] - 128) * 64 + (bs[3] - 128) >= 2048
                 THEN Utf8Decode(SubSeq(bs, 4, Len(bs)),
                                 Append(acc, (b - 224) * 4096 + (bs[2] - 128) * 64
                                             + (bs[3] - 128)))
            ELSE [ok |-> FALSE, text |-> <<>>]

\* json.loads: a recursive-descent parser.  A result is
\* [ok |-> TRUE, val |-> value, next |-> index after it] or [ok |-> FALSE].
ParseFail == [ok |-> FALSE]
Parsed(v, n) == [ok |-> TRUE, val |-> v, next |-> n]

IsWs(c) == c \in {32, 9, 10, 13}
IsDigit(c) == c >= 48 /\ c <= 57

RECURSIVE SkipWs(_, _)
SkipWs(txt, i) == IF i <= Len(txt) /\ IsWs(txt[i]) THEN SkipWs(txt, i + 1) ELSE i

StartsAt(txt, i, word) ==
    i + Len(word) - 1 <= Len(txt) /\ SubSeq(txt, i, i + Len(word) - 1) = word

\* The characters of a string after its opening quote.
RECURSIVE ParseString(_, _, _)
ParseString(txt, i, acc) ==
    IF i > Len(txt) THEN ParseFail
    ELSE IF txt[i] = 34 THEN Parsed(acc, i + 1)
    ELSE IF txt[i] = 92
         THEN IF i + 1 <= Len(txt) /\ txt[i + 1] \in {34, 92}
              THEN ParseString(txt, i + 2, Append(acc, txt[i + 1]))
              ELSE ParseFail
    ELSE IF txt[i] < 32 THEN ParseFail
    ELSE ParseString(txt, i + 1, Append(acc, txt[i]))

RECURSIVE ParseDigits(_, _, _)
ParseDigits(txt, i, acc) ==
    IF i <= Len(txt) /\ IsDigit(txt[i])
    THEN ParseDigits(txt, i + 1, 10 * acc + (txt[i] - 48))
    ELSE Parsed(acc, i)

\* -? (0 | [1-9][0-9]*)
ParseNumber(txt, i) ==
    LET neg == txt[i] = 45
        j == IF neg THEN i + 1 ELSE i
    IN IF j > Len(txt) \/ ~IsDigit(txt[j]) THEN ParseFail
       ELSE LET r == IF txt[j] = 48 THEN Parsed(0, j + 1) ELSE ParseDigits(txt, j, 0)
            IN Parsed(JNum(IF neg THEN 0 - r.val ELSE r.val), r.next)

RECURSIVE ParseValue(_, _), ParseElems(_, _, _), ParseMembers(_, _, _)
ParseValue(txt, i0) ==
    LET i == SkipWs(txt, i0)
    IN IF i > Len(txt) THEN ParseFail
       ELSE IF StartsAt(txt, i, Text("null")) THEN Parsed(JNull, i + 4)
       ELSE IF StartsAt(txt, i, Text("true")) THEN Parsed(JBool(TRUE), i + 4)
       ELSE IF StartsAt(txt, i, Text("false")) THEN Parsed(JBool(FALSE), i + 5)
       ELSE IF txt[i] = 34
            THEN LET r == ParseString(txt, i + 1, <<>>)
                 IN IF r.ok THEN Parsed(JStr(r.val), r.next) ELSE ParseFail
       ELSE IF txt[i] = 45 \/ IsDigit(txt[i]) THEN ParseNumber(txt, i)
       ELSE IF txt[i] = 91
            THEN LET j == SkipWs(txt, i + 1)
                 IN IF j <= Len(txt) /\ txt[j] = 93 THEN Parsed(JArr(<<>>), j + 1)
                    ELSE ParseElems(txt, j, <<>>)
       ELSE IF txt[i] = 123
            THEN LET j == SkipWs(txt, i + 1)
                 IN IF j <= Len(txt) /\ txt[j] = 125 THEN Parsed(JObj(<<>>), j + 1)
                    ELSE ParseMembers(txt, j, <<>>)
       ELSE ParseFail

\* value (',' value)* ']'
ParseElems(txt, i, acc) ==
    LET r == ParseValue(txt, i)
    IN IF ~r.ok THEN ParseFail
       ELSE LET j == SkipWs(txt, r.next)
            IN IF j > Len(txt) THEN ParseFail
               ELSE IF txt[j] = 93 THEN Parsed(JArr(Append(acc, r.val)), j + 1)
               ELSE IF txt[j] = 44 THEN ParseElems(txt, j + 1, Append(acc, r.val))
               ELSE ParseFail

\* string ':' value (',' string ':' value)* '}'; a repeated key keeps the
\* last value.
ParseMembers(txt, i0, acc) ==
    LET i == SkipWs(txt, i0)
    IN IF i > Len(txt) \/ txt[i] # 34 THEN ParseFail
       ELSE LET k == ParseString(txt, i + 1, <<>>)
            IN IF ~k.ok THEN ParseFail
               ELSE LET c == SkipWs(txt, k.next)
                    IN IF c > Len(txt) \/ txt[c] # 58 THEN ParseFail
                       ELSE LET r == ParseValue(txt, c + 1)
                            IN IF ~r.ok THEN ParseFail
                               ELSE LET j == SkipWs(txt, r.next)
                                        f == [x \in (DOMAIN acc) \cup {k.val} |->
                                                 IF x = k.val THEN r.val ELSE acc[x]]
                                    IN IF j > Len(txt) THEN ParseFail
                                       ELSE IF txt[j] = 125 THEN Parsed(JObj(f), j + 1)
                                       ELSE IF txt[j] = 44 THEN ParseMembers(txt, j + 1, f)
                                       ELSE ParseFail

\* json.loads(content): the whole text must be one value.
Loads(txt) ==
    LET r == ParseValue(txt, 1)
    IN IF r.ok /\ SkipWs(txt, r.next) = Len(txt) + 1
       THEN Return(r.val)
       ELSE Raise("JSONDecodeError")

\* The documents of the model.
Scalars ==
    {JNull, JBool(TRUE), JNum(0), JNum(0 - 17), JStr(<<>>), JStr(<<233, 34, 97>>)}

Keys == {<<107>>, <<8364, 92>>}

Arrays(S, n) == {JArr(a) : a \in SeqsUpTo(S, n)}

Objects(V) ==
    {JObj(f) : f \in UNION {[ks -> V] : ks \in SUBSET Keys}}

Docs ==
    Scalars
    \cup Arrays(Scalars, MaxArrayLen)
    \cup Objects(Scalars \cup Arrays({JNum(0 - 17), JStr(<<233, 34, 97>>)}, 1))
    \cup Arrays(Objects({JNull}), 1)

\* A seek that leaves the position where the caller left it.
SeekNowhere(st) == st

\* file_obj.seek(0)
SeekStart(st) == [st EXCEPT !.pos = 0]

\* file_obj.read(): everything from the read position to the end.
ReadRest(st) == SubSeq(st.data, st.pos + 1, Len(st.data))

\* Lines 68-71: bytes are decoded as UTF-8, then the text is parsed.
DecodeAndParse(mode, data) ==
    IF mode = "binary"
    THEN LET r == Utf8Decode(data, <<>>)
         IN IF r.ok THEN Loads(r.text) ELSE Raise("UnicodeDecodeError")
    ELSE Loads(data)

StreamIdle ==
    /\ spc = "idle" /\ doc = JNull /\ content = <<>> /\ sresult = NoOutcome
    /\ stream = [mode |-> "binary", data |-> <<>>, pos |-> 0, seekable |-> TRUE,
                 handed_at |-> 0]

\* A caller hands read_file_object a stream holding the serialization of a
\* document, in binary mode (UTF-8 bytes) or text mode, at any read position.
CallReadFileObject ==
    /\ StreamOnly
    /\ spc = "idle"
    /\ \E d \in Docs, mode \in {"binary", "text"}, seekable \in BOOLEAN :
          LET data == IF mode = "binary" THEN Utf8Encode(Dumps(d)) ELSE Dumps(d)
          IN \E p \in 0..Len(data) :
                /\ doc' = d
                /\ stream' = [mode |-> mode, data |-> data, pos |-> p,
                              seekable |-> seekable, handed_at |-> p]
    /\ spc' = "seek"
    /\ UNCHANGED <<content, sresult>>

\* Line 64: file_obj.seek(0); a stream that cannot seek raises.
SeekStep ==
    /\ StreamOnly
    /\ spc = "seek"
    /\ IF stream.seekable
       THEN /\ stream' = SeekStart(stream)
            /\ spc' = "read"
            /\ UNCHANGED sresult
       ELSE /\ sresult' = Raise("UnsupportedOperation")
            /\ spc' = "done"
            /\ UNCHANGED stream
    /\ UNCHANGED <<doc, content>>

\* Line 65: content = file_obj.read()
ReadStep ==
    /\ StreamOnly
    /\ spc = "read"
    /\ content' = ReadRest(stream)
    /\ stream' = [stream EXCEPT !.pos = Len(stream.data)]
    /\ spc' = "parse"
    /\ UNCHANGED <<doc, sresult>>

\* Lines 68-78: decode, parse, return; the handlers log and re-raise.
ParseStep ==
    /\ StreamOnly
    /\ spc = "parse"
    /\ sresult' = DecodeAndParse(stream.mode, content)
    /\ spc' = "done"
    /\ UNCHANGED <<doc, stream, content>>

NextStream ==
    \/ CallReadFileObject
    \/ SeekStep
    \/ ReadStep
    \/ ParseStep

(***************************************************************************)
(* load_config and get_message_type_description                            *)
(* A Python value carries every field, each field of one type: t the type, *)
(* b a bool, n an int, s a str, d a dict's items (key -> value).  A list   *)
(* is kept without its elements.                                           *)
(***************************************************************************)
PyValue(t, b, n, s, d) == [t |-> t, b |-> b, n |-> n, s |-> s, d |-> d]
PyNone == PyValue("none", FALSE, 0, "", <<>>)
PyBool(b) == PyValue("bool", b, 0, "", <<>>)
PyInt(n) == PyValue("int", FALSE, n, "", <<>>)
PyStr(s) == PyValue("str", FALSE, 0, s, <<>>)
PyList == PyValue("list", FALSE, 0, "", <<>>)
PyDict(d) == PyValue("dict", FALSE, 0, "", d)

DEFAULT_CONFIG ==
    PyDict(
        ("database" :> PyDict(
            ("host" :> PyStr("localhost"))
            @@ ("port" :> PyInt(5432))
            @@ ("dbname" :> PyStr("skype_archive"))
            @@ ("user" :> PyStr("postgres"))
            @@ ("password" :> PyStr(""))))
        @@ ("output" :> PyDict(
            ("directory" :> PyStr("output"))
            @@ ("overwrite" :> PyBool(FALSE))))
        @@ ("logging" :> PyDict(
            ("level" :> PyStr("INFO"))
            @@ ("file" :> PyNone)))
        @@ ("message_types" :> PyDict(
            ("Event/Call" :> PyStr("***A call started/ended***"))
            @@ ("Poll" :> PyStr("***Created a poll***"))
            @@ ("RichText/Media_Album" :> PyStr("***Sent an album of images***"))
            @@ ("RichText/Media_AudioMsg" :> PyStr("***Sent a voice message***"))
            @@ ("RichText/Media_CallRecording" :> PyStr("***Sent a call recording***"))
            @@ ("RichText/Media_Card" :> PyStr("***Sent a media card***"))
            @@ ("RichText/Media_FlikMsg" :> PyStr("***Sent a moji***"))
            @@ ("RichText/Media_GenericFile" :> PyStr("***Sent a file***"))
            @@ ("RichText/Media_Video" :> PyStr("***Sent a video message***"))
            @@ ("RichText/UriObject" :> PyStr("***Sent a photo***"))
            @@ ("RichText/ScheduledCallInvite" :> PyStr("***Scheduled a call***"))
            @@ ("RichText/Location" :> PyStr("***Sent a location***"))
            @@ ("RichText/Contacts" :> PyStr("***Sent a contact***"))))
        @@ ("default_message_format" :> PyStr("***Sent a {message_type}***")))

\* target[key] = value
SetItem(d, key, value) ==
    [k \in (DOMAIN d) \cup {key} |-> IF k = key THEN value ELSE d[k]]

\* _deep_update(target, source) on the items of two dicts.
RECURSIVE DeepUpdate(_, _)
DeepUpdate(target, source) ==
    [k \in (DOMAIN target) \cup (DOMAIN source) |->
        IF k \in DOMAIN source
        THEN IF k \in DOMAIN target /\ target[k].t = "dict" /\ source[k].t = "dict"
             THEN PyDict(DeepUpdate(target[k].d, source[k].d))
             ELSE source[k]
        ELSE target[k]]

\* What a file argument names: "absent" (None), "missing" (no such path),
\* "unreadable" (open fails), "notjson" (json.load fails), or "json" with
\* the parsed value.
FileArg(kind, val) == [kind |-> kind, val |-> val]
NoFile == FileArg("absent", PyNone)

\* Lines 66-74.  Only a JSON object gets merged: a missing path fails the
\* exists() test, and every exception (open, json.load, the AttributeError
\* of source.items() on a non-dict) is logged by the except clause before
\* anything was changed.
ApplyConfigFile(cfg, file) ==
    IF file.kind = "json" /\ file.val.t = "dict"
    THEN PyDict(DeepUpdate(cfg.d, file.val.d))
    ELSE cfg

\* Lines 77-88.  The two keys are assigned, not merged; a value that is not
\* an object changes nothing (its exception is logged).
ApplyMessageTypesFile(cfg, file) ==
    IF file.kind = "json" /\ file.val.t = "dict"
    THEN LET src == file.val.d
             c1 == IF "message_types" \in DOMAIN src
                   THEN SetItem(cfg.d, "message_types", src["message_types"])
                   ELSE cfg.d
             c2 == IF "default_message_format" \in DOMAIN src
                   THEN SetItem(c1, "default_message_format", src["default_message_format"])
                   ELSE c1
         IN PyDict(c2)
    ELSE cfg

\* str.lower() on ASCII letters.
UpperLetters == "ABCDEFGHIJKLMNOPQRSTUVWXYZ"
LowerLetters == "abcdefghijklmnopqrstuvwxyz"

LowerChar(c) ==
    IF \E i \in 1..Len(UpperLetters) : Char(UpperLetters, i) = c
    THEN Char(LowerLetters, CHOOSE i \in 1..Len(UpperLetters) : Char(UpperLetters, i) = c)
    ELSE c

RECURSIVE Lower(_)
Lower(str) == IF str = "" THEN "" ELSE LowerChar(Char(str, 1)) \o Lower(Tail(str))

\* Lines 92-113 in order: the variable, the setting it overrides, and how
\* its value is converted.
EnvOverrides ==
    << [var |-> "POSTGRES_HOST", section |-> "database", key |-> "host", conv |-> "str"],
       [var |-> "POSTGRES_PORT", section |-> "database", key |-> "port", conv |-> "int"],
       [var |-> "POSTGRES_DB", section |-> "database", key |-> "dbname", conv |-> "str"],
       [var |-> "POSTGRES_USER", section |-> "database", key |-> "user", conv |-> "str"],
       [var |-> "POSTGRES_PASSWORD", section |-> "database", key |-> "password", conv |-> "str"],
       [var |-> "OUTPUT_DIR", section |-> "output", key |-> "directory", conv |-> "str"],
       [var |-> "OUTPUT_OVERWRITE", section |-> "output", key |-> "overwrite", conv |-> "bool"],
       [var |-> "LOG_LEVEL", section |-> "logging", key |-> "level", conv |-> "str"],
       [var |-> "LOG_FILE", section |-> "logging", key |-> "file", conv |-> "str"] >>

EnvVars == {EnvOverrides[i].var : i \in 1..Len(EnvOverrides)}

\* The right-hand sides of lines 93-113: the string itself, int(...), or
\* .lower() in ('true', 'yes', '1').
Convert(conv, str) ==
    IF conv = "int"
    THEN IF ParseInt(str) = <<>> THEN [ok |-> FALSE, val |-> PyNone]
         ELSE [ok |-> TRUE, val |-> PyInt(ParseInt(str)[1])]
    ELSE IF conv = "bool"
         THEN [ok |-> TRUE, val |-> PyBool(Lower(str) \in {"true", "yes", "1"})]
    ELSE [ok |-> TRUE, val |-> PyStr(str)]

\* if os.getenv(VAR): config[section][key] = <converted value>.  The test is
\* on the value's truth: an unset variable and an empty one are both
\* skipped.  The right-hand side is evaluated first (ValueError of int),
\* then config[section] is subscripted and assigned into, which raises
\* TypeError when it is not a dict.
ApplyOverride(st, o, env) ==
    IF st.err # "" \/ env[o.var] = <<>> \/ env[o.var][1] = "" THEN st
    ELSE LET c == Convert(o.conv, env[o.var][1])
         IN IF ~c.ok THEN [cfg |-> st.cfg, err |-> "ValueError"]
            ELSE IF st.cfg.d[o.section].t # "dict"
                 THEN [cfg |-> st.cfg, err |-> "TypeError"]
            ELSE [cfg |-> PyDict(SetItem(st.cfg.d, o.section,
                                         PyDict(SetItem(st.cfg.d[o.section].d,
                                                        o.key, c.val)))),
                  err |-> ""]

RECURSIVE ApplyEnv(_, _, _)
ApplyEnv(st, i, env) ==
    IF i > Len(EnvOverrides) THEN st
    ELSE ApplyEnv(ApplyOverride(st, EnvOverrides[i], env), i + 1, env)

\* load_config(config_file, message_types_file): the defaults, the config
\* file, the message-types file, the environment; err names the exception
\* that escapes, "" when the config is returned.
LoadConfig(file, mtfile, env) ==
    ApplyEnv([cfg |-> ApplyMessageTypesFile(ApplyConfigFile(DEFAULT_CONFIG, file), mtfile),
              err |-> ""],
             1, env)

\* str.format(message_type=value): "{{" and "}}" are braces, "{message_type}"
\* is the value, "{}" and "{0}" ask for a positional argument (IndexError),
\* any other field name is a KeyError, an unmatched brace a ValueError.
\* Conversions and format specs inside a field are not modelled.
FormatOk(str) == [ok |-> TRUE, out |-> str]
FormatError(e) == [ok |-> FALSE, out |-> e]

FormatPrepend(str, r) == IF r.ok THEN FormatOk(str \o r.out) ELSE r

HasCloseFrom(fmt, i) == \E j \in i..Len(fmt) : Char(fmt, j) = "}"

FirstCloseFrom(fmt, i) ==
    CHOOSE j \in i..Len(fmt) :
        Char(fmt, j) = "}" /\ \A k \in i..(j - 1) : Char(fmt, k) # "}"

RECURSIVE FormatFrom(_, _, _)
FormatFrom(fmt, i, value) ==
    IF i > Len(fmt) THEN FormatOk("")
    ELSE IF Char(fmt, i) = "{"
         THEN IF i < Len(fmt) /\ Char(fmt, i + 1) = "{"
              THEN FormatPrepend("{", FormatFrom(fmt, i + 2, value))
              ELSE IF ~HasCloseFrom(fmt, i + 1) THEN FormatError("ValueError")
              ELSE LET j == FirstCloseFrom(fmt, i + 1)
                       name == SubSeq(fmt, i + 1, j - 1)
                   IN IF name = "message_type"
                      THEN FormatPrepend(value, FormatFrom(fmt, j + 1, value))
                      ELSE IF name = "" \/ IsDigits(name) THEN FormatError("IndexError")
                      ELSE FormatError("KeyError")
    ELSE IF Char(fmt, i) = "}"
         THEN IF i < Len(fmt) /\ Char(fmt, i + 1) = "}"
              THEN FormatPrepend("}", FormatFrom(fmt, i + 2, value))
              ELSE FormatError("ValueError")
    ELSE FormatPrepend(Char(fmt, i), FormatFrom(fmt, i + 1, value))

DReturn(v) == [kind |-> "return", val |-> v]
DRaise(e) == [kind |-> "raise", val |-> PyStr(e)]
NoDescription == [kind |-> "none", val |-> PyNone]

\* get_message_type_description(config, msg_type); mt is <<>> for None.
\* message_types.get is looked up first, then the default is formatted,
\* whether or not the type is a key, then the lookup is made.
GetMessageTypeDescription(cfg, mt) ==
    IF mt = <<>> \/ mt[1] = "" THEN DReturn(PyStr("Unknown message type"))
    ELSE LET message_types == IF "message_types" \in DOMAIN cfg.d
                              THEN cfg.d["message_types"] ELSE PyDict(<<>>)
             default_format == IF "default_message_format" \in DOMAIN cfg.d
                               THEN cfg.d["default_message_format"]
                               ELSE PyStr("***Sent a {message_type}***")
         IN IF message_types.t # "dict" THEN DRaise("AttributeError")
            ELSE IF default_format.t # "str" THEN DRaise("AttributeError")
            ELSE LET r == FormatFrom(default_format.s, 1, mt[1])
                 IN IF ~r.ok THEN DRaise(r.out)
                    ELSE IF mt[1] \in DOMAIN message_types.d
                         THEN DReturn(message_types.d[mt[1]])
                    ELSE DReturn(PyStr(r.out))

\* ---- the inputs of the model ----
RECURSIVE KSubsets(_, _)
KSubsets(S, k) ==
    IF k = 0 THEN {{}}
    ELSE {T \in {U \cup {x} : U \in KSubsets(S, k - 1), x \in S} : Cardinality(T) = k}

Leaf(path, val) == [path |-> path, val |-> val]

IsPrefix(p, q) == Len(p) <= Len(q) /\ SubSeq(q, 1, Len(p)) = p

\* No two leaves of a document sit on the same path or below one another.
Consistent(L) == \A x, y \in L : x # y => ~IsPrefix(x.path, y.path)

\* The JSON object holding the leaves L.
DocOf(L) ==
    PyDict([k \in {x.path[1] : x \in L} |->
        IF \E x \in L : x.path = <<k>>
        THEN (CHOOSE x \in L : x.path = <<k>>).val
        ELSE PyDict([j \in {x.path[2] : x \in {y \in L : y.path[1] = k}} |->
                        (CHOOSE x \in L : x.path = <<k, j>>).val])])

\* What a config file may supply: each overridable setting, message types,
\* the default format, an unknown key, and sections of unexpected types.
ConfigLeaves ==
    { Leaf(<<"database", "host">>, PyStr("filehost")),
      Leaf(<<"database", "port">>, PyInt(6000)),
      Leaf(<<"database", "dbname">>, PyStr("filedb")),
      Leaf(<<"database", "user">>, PyStr("fileuser")),
      Leaf(<<"database", "password">>, PyStr("filepw")),
      Leaf(<<"output", "directory">>, PyStr("filedir")),
      Leaf(<<"output", "overwrite">>, PyBool(TRUE)),
      Leaf(<<"logging", "level">>, PyStr("DEBUG")),
      Leaf(<<"logging", "file">>, PyStr("file.log")),
      Leaf(<<"message_types", "Poll">>, PyStr("file poll")),
      Leaf(<<"message_types", "Custom/New">>, PyStr("file custom")),
      Leaf(<<"default_message_format">>, PyStr("file {message_type}")),
      Leaf(<<"extra">>, PyInt(1)),
      Leaf(<<"database">>, PyInt(5)),
      Leaf(<<"output">>, PyNone),
      Leaf(<<"logging">>, PyStr("verbose")),
      Leaf(<<"message_types">>, PyList) }

\* What a message-types file may supply.
MessageTypesLeaves ==
    { Leaf(<<"message_types">>, PyDict("Poll" :> PyStr("mt poll"))),
      Leaf(<<"message_types">>, PyDict("Custom/New" :> PyStr("mt custom"))),
      Leaf(<<"message_types">>, PyDict("Poll" :> PyInt(5))),
      Leaf(<<"message_types">>, PyDict(<<>>)),
      Leaf(<<"message_types">>, PyList),
      Leaf(<<"default_message_format">>, PyStr("mt {message_type}")),
      Leaf(<<"default_message_format">>, PyStr("{{{message_type}}}")),
      Leaf(<<"default_message_format">>, PyStr("plain")),
      Leaf(<<"default_message_format">>, PyStr("{type}")),
      Leaf(<<"default_message_format">>, PyStr("{0}")),
      Leaf(<<"default_message_format">>, PyStr("{")),
      Leaf(<<"default_message_format">>, PyInt(5)) }

\* The file arguments that supply w things (an argument that is given but
\* supplies nothing counts as one).
FilesOfWeight(leaves, w) ==
    IF w = 0 THEN {NoFile}
    ELSE (IF w = 1
          THEN { FileArg("missing", PyNone), FileArg("unreadable", PyNone),
                 FileArg("notjson", PyNone), FileArg("json", PyList),
                 FileArg("json", PyStr("message_types")), FileArg("json", PyInt(5)),
                 FileArg("json", PyDict(<<>>)) }
          ELSE {})
         \cup {FileArg("json", DocOf(L)) : L \in {T \in KSubsets(leaves, w) : Consistent(T)}}

EnvValues(var) ==
    IF var = "POSTGRES_PORT" THEN {"", "6543", "abc"}
    ELSE IF var = "OUTPUT_OVERWRITE" THEN {"", "true", "YES", "no"}
    ELSE {"", "envval"}

\* The environments in which exactly n of the variables are set.
EnvsWithCount(n) ==
    UNION { { [v \in EnvVars |-> IF v \in S THEN <<g[v]>> ELSE <<>>] :
                g \in {h \in [S -> UNION {EnvValues(v) : v \in S}] :
                          \A v \in S : h[v] \in EnvValues(v)} } :
            S \in KSubsets(EnvVars, n) }

MessageTypeArgs ==
    {<<>>, <<"">>, <<"Poll">>, <<"RichText/Location">>, <<"Totally/Unknown">>}

CfgIdle ==
    /\ cpc = "idle" /\ config_file = NoFile /\ message_types_file = NoFile
    /\ environ = [v \in EnvVars |-> <<>>] /\ config = PyNone /\ cerror = ""
    /\ msg_type = <<>> /\ description = NoDescription

\* A caller invokes load_config(config_file, message_types_file) in some
\* environment; files and environment together supply at most MaxOverrides
\* things.
CallLoadConfig ==
    /\ ConfigOnly
    /\ cpc = "idle"
    /\ \E wf \in 0..MaxOverrides :
       \E file \in FilesOfWeight(ConfigLeaves, wf) :
       \E wm \in 0..(MaxOverrides - wf) :
       \E mtfile \in FilesOfWeight(MessageTypesLeaves, wm) :
       \E we \in 0..(MaxOverrides - wf - wm) :
       \E env \in EnvsWithCount(we) :
          LET r == LoadConfig(file, mtfile, env)
          IN /\ config_file' = file
             /\ message_types_file' = mtfile
             /\ environ' = env
             /\ cerror' = r.err
             /\ config' = IF r.err = "" THEN r.cfg ELSE PyNone
             /\ cpc' = IF r.err = "" THEN "loaded" ELSE "load_raised"
    /\ UNCHANGED <<msg_type, description>>

\* A caller asks for the description of a message type under the config
\* that load_config returned.
CallGetMessageTypeDescription ==
    /\ ConfigOnly
    /\ cpc = "loaded"
    /\ \E mt \in MessageTypeArgs :
          /\ msg_type' = mt
          /\ description' = GetMessageTypeDescription(config, mt)
    /\ cpc' = "described"
    /\ UNCHANGED <<config_file, message_types_file, environ, config, cerror>>

NextConfig ==
    \/ CallLoadConfig
    \/ CallGetMessageTypeDescription

(***************************************************************************)
(* load_config on objects with identity.  A dict is an object at an        *)
(* address of the heap; each of its items holds either a reference to      *)
(* another dict (ref > 0) or a value that cannot be changed in place       *)
(* (ref = 0).  Two names share structure when they reach one address.      *)
(***************************************************************************)
CellRef(a) == [ref |-> a, v |-> PyNone]
CellVal(v) == [ref |-> 0, v |-> v]

\* The objects of a value: every dict of v becomes a fresh object, as
\* json.load, a dict display and copy.deepcopy build them.  The items that
\* are no dicts are put in at once, the dicts among them one after another.
RECURSIVE Store(_, _)
RECURSIVE StoreItems(_, _, _, _)
Store(h, v) ==
    IF v.t # "dict" THEN [h |-> h, c |-> CellVal(v)]
    ELSE LET r == StoreItems(h, v.d, {x \in DOMAIN v.d : v.d[x].t = "dict"},
                             [x \in DOMAIN v.d |-> CellVal(v.d[x])])
         IN [h |-> Append(r.h, r.obj), c |-> CellRef(Len(r.h) + 1)]

StoreItems(h, d, keys, obj) ==
    IF keys = {} THEN [h |-> h, obj |-> obj]
    ELSE LET k == CHOOSE x \in keys : TRUE
             r == Store(h, d[k])
         IN StoreItems(r.h, d, keys \ {k}, SetItem(obj, k, r.c))

\* The value an item holds, read through the references.
RECURSIVE ValueAt(_, _)
ValueAt(h, c) ==
    IF c.ref = 0 THEN c.v
    ELSE PyDict([k \in DOMAIN h[c.ref] |-> ValueAt(h, h[c.ref][k])])

\* The address of DEFAULT_CONFIG once the module is imported.
DefaultAddr == Store(<<>>, DEFAULT_CONFIG).c.ref

\* dict.copy(): a new top-level dict whose items are the old ones.
ShallowCopy(h, a) == [h |-> Append(h, h[a]), c |-> CellRef(Len(h) + 1)]

\* copy.deepcopy(obj): new objects all the way down, equal in value.
DeepCopy(h, a) == Store(h, ValueAt(h, CellRef(a)))

\* _deep_update(target, source) for the keys of source still to visit: a
\* dict met on both sides is descended into, anything else is assigned,
\* a dict of the source by reference.
RECURSIVE DeepUpdateObj(_, _, _, _)
DeepUpdateObj(h, target, source, keys) ==
    IF keys = {} THEN h
    ELSE LET k == CHOOSE x \in keys : TRUE
             item == h[source][k]
             h1 == IF k \in DOMAIN h[target] /\ h[target][k].ref # 0 /\ item.ref # 0
                   THEN DeepUpdateObj(h, h[target][k].ref, item.ref, DOMAIN h[item.ref])
                   ELSE [h EXCEPT ![target] = SetItem(@, k, item)]
         IN DeepUpdateObj(h1, target, source, keys \ {k})

\* Lines 66-74 on objects: json.load builds file_config, _deep_update
\* merges it into config.
LoadConfigFile(h, root, file) ==
    IF file.kind = "json" /\ file.val.t = "dict"
    THEN LET st == Store(h, file.val)
         IN DeepUpdateObj(st.h, root, st.c.ref, DOMAIN st.h[st.c.ref])
    ELSE h

\* Lines 77-88 on objects: the two keys are assigned from the file's dict.
LoadMessageTypesFile(h, root, file) ==
    IF file.kind = "json" /\ file.val.t = "dict"
    THEN LET st == Store(h, file.val)
             src == st.h[st.c.ref]
             h1 == IF "message_types" \in DOMAIN src
                   THEN [st.h EXCEPT ![root] = SetItem(@, "message_types", src["message_types"])]
                   ELSE st.h
         IN IF "default_message_format" \in DOMAIN src
            THEN [h1 EXCEPT ![root] = SetItem(@, "default_message_format",
                                              src["default_message_format"])]
            ELSE h1
    ELSE h

\* Lines 92-113 on objects, from the i-th override on.
RECURSIVE OverrideObj(_, _, _, _)
OverrideObj(h, root, i, env) ==
    IF i > Len(EnvOverrides) THEN [h |-> h, err |-> ""]
    ELSE LET o == EnvOverrides[i]
         IN IF env[o.var] = <<>> \/ env[o.var][1] = ""
            THEN OverrideObj(h, root, i + 1, env)
            ELSE LET c == Convert(o.conv, env[o.var][1])
                     sec == h[root][o.section]
                 IN IF ~c.ok THEN [h |-> h, err |-> "ValueError"]
                    ELSE IF sec.ref = 0 THEN [h |-> h, err |-> "TypeError"]
                    ELSE OverrideObj(
                             [h EXCEPT ![sec.ref] = SetItem(@, o.key, CellVal(c.val))],
                             root, i + 1, env)

\* load_config on objects: root is the address of the returned config, 0
\* when an exception escapes.
LoadConfigObj(h, file, mtfile, env) ==
    LET cp == DeepCopy(h, DefaultAddr)
        addr == cp.c.ref
        r == OverrideObj(LoadMessageTypesFile(LoadConfigFile(cp.h, addr, file), addr, mtfile),
                         addr, 1, env)
    IN [h |-> r.h, root |-> IF r.err = "" THEN addr ELSE 0]

\* The files and environments of the calls: nothing, a setting merged into
\* a default section, a section replaced, and dicts of the file that end
\* up inside the config.
HeapConfigFiles ==
    { NoFile,
      FileArg("json", PyDict("database" :> PyDict("host" :> PyStr("filehost")))),
      FileArg("json", PyDict("database" :> PyInt(5))),
      FileArg("json", PyDict("extra" :> PyDict("k" :> PyInt(1)))) }

HeapMessageTypesFiles ==
    { NoFile,
      FileArg("json", PyDict("message_types" :> PyDict("Poll" :> PyStr("mt poll")))) }

HeapEnvs ==
    { [v \in EnvVars |-> IF v = "POSTGRES_HOST" THEN val ELSE <<>>] :
          val \in {<<>>, <<"envval">>} }

\* The arguments and environment of one call: at most one of the three
\* sources supplies something, or the file replaces the database section
\* while the environment names a host (the override then raises).
HeapArgs ==
    { a \in [file : HeapConfigFiles, mtfile : HeapMessageTypesFiles, env : HeapEnvs] :
        \/ Cardinality({x \in {"file", "mtfile"} : a[x] # NoFile}
                       \cup {x \in {"env"} : a.env["POSTGRES_HOST"] # <<>>}) <= 1
        \/ /\ a.file = FileArg("json", PyDict("database" :> PyInt(5)))
           /\ a.mtfile = NoFile }

\* What a caller may do to a config it got: config[k1][k2] = ... for a
\* path of two keys, config[k] = ... for a path of one.
Mutations ==
    { <<"database", "host">>, <<"message_types", "Poll">>, <<"extra", "k">>,
      <<"logging">> }

\* The module is imported: DEFAULT_CONFIG is the only object.
HeapIdle ==
    /\ heap = Store(<<>>, DEFAULT_CONFIG).h
    /\ calls = <<>>
    /\ nmut = 0

\* A caller invokes load_config(config_file, message_types_file) in some
\* environment and keeps what it returns.
CallLoadConfigObj ==
    /\ HeapOnly
    /\ Len(calls) < MaxCalls
    /\ \E a \in HeapArgs :
          LET r == LoadConfigObj(heap, a.file, a.mtfile, a.env)
          IN /\ heap' = r.h
             /\ calls' = Append(calls, [file |-> a.file, mtfile |-> a.mtfile, env |-> a.env,
                                        root |-> r.root, mutated |-> FALSE,
                                        later |-> nmut > 0])
    /\ UNCHANGED nmut

\* A caller changes a config that load_config returned to it.
CallerMutates ==
    /\ HeapOnly
    /\ nmut < MaxMutations
    /\ \E i \in 1..Len(calls), path \in Mutations :
          LET root == calls[i].root
              new == CellVal(PyStr("changed"))
          IN /\ root # 0
             /\ IF Len(path) = 1
                THEN heap' = [heap EXCEPT ![root] = SetItem(@, path[1], new)]
                ELSE /\ path[1] \in DOMAIN heap[root]
                     /\ heap[root][path[1]].ref # 0
                     /\ heap' = [heap EXCEPT ![heap[root][path[1]].ref] =
                                                SetItem(@, path[2], new)]
             /\ calls' = [calls EXCEPT ![i].mutated = TRUE]
    /\ nmut' = nmut + 1

NextHeap ==
    \/ CallLoadConfigObj
    \/ CallerMutates

InitAll == TarIdle /\ ExIdle /\ StreamIdle /\ CfgIdle /\ HeapIdle

NextTar ==
    \/ CallReadTarfile
    \/ CallReadTarfileObject
    \/ SeekAndRead
    \/ WriteTemp
    \/ OpenTar
    \/ FilterMembers
    \/ SelectMember
    \/ Prompt
    \/ ExtractMember
    \/ Finally

SpecTar == InitAll /\ [][NextTar]_vars
SpecExtract == InitAll /\ [][NextExtract]_vars

SpecStream == InitAll /\ [][NextStream]_vars

SpecConfig == InitAll /\ [][NextConfig]_vars
SpecHeap == InitAll /\ [][NextHeap]_vars

(***************************************************************************)
(* Properties of read_tarfile and read_tarfile_object                      *)
(***************************************************************************)
Occurs(e) == \E i \in 1..Len(events) : events[i] = e

InOrder(a, b, c) ==
    \E i, j, k \in 1..Len(events) :
        /\ i < j /\ j < k
        /\ events[i] = a /\ events[j] = b /\ events[k] = c

NoJsonError == Raise("IndexError: No JSON files found in the tar archive")

InRange(sel, J) == sel # <<>> /\ 0 <= sel[1] /\ sel[1] < Len(J)

\* C1: whenever a member is about to be extracted or has been extracted, the
\* index used is within 0..|J|-1, where J is the candidate list; it is 0
\* when |J| = 1, select_json when |J| > 1 and select_json is in range, and 0
\* (the first in listing order, unsorted) when |J| > 1, select_json is
\* absent or out of range and auto_select is true; a returned document is
\* the one of member J[index].
C1_MemberSelection ==
    (pc = "extract" \/ Occurs("extract")) =>
        LET J == tar_files
            i == selected_index[1]
        IN /\ selected_index # <<>>
           /\ 0 <= i /\ i <= Len(J) - 1
           /\ Len(J) = 1 => i = 0
           /\ (Len(J) > 1 /\ InRange(select_json, J)) => i = select_json[1]
           /\ (Len(J) > 1 /\ ~InRange(select_json, J) /\ auto_select) => i = 0
           /\ outcome.kind = "return" => outcome.val = J[i + 1]
           /\ (tar_contents = <<"b.json", "a.json">> /\ select_json = <<>>
                  /\ auto_select /\ outcome.kind = "return")
               => outcome.val = "b.json"

C1_Witness ==
    /\ pc = "done" /\ tar_contents = <<"b.json", "a.json">>
    /\ select_json = <<>> /\ auto_select
    /\ delivered = Return("b.json")

\* C2: for a listing without any JSON candidate the call never reaches the
\* selection, the prompt or the extraction, never produces a value, and
\* once the archive has been opened and listed it ends in the "No JSON
\* files found" IndexError, whatever select_json and auto_select are.
C2_EmptyArchiveFails ==
    (pc # "idle" /\ \A k \in 1..Len(tar_contents) : ~JsonPatternMatch(tar_contents[k])) =>
        /\ pc \notin {"select", "prompt", "extract"}
        /\ ~Occurs("prompt") /\ ~Occurs("extract")
        /\ outcome.kind # "return" /\ delivered.kind # "return"
        /\ (pc \in {"finally", "done"}
              /\ outcome.val \notin {"StreamError", "OSError", "ReadError"})
           => outcome = NoJsonError
        /\ (pc = "done" /\ outcome = NoJsonError) => delivered = NoJsonError

C2_Witness ==
    /\ pc = "done" /\ entry = "read_tarfile_object"
    /\ tar_contents = <<"notes.txt", "A.JSON">>
    /\ select_json = <<0>> /\ ~auto_select
    /\ delivered = NoJsonError

\* A name ends with the literal suffix ".json".
EndsWithDotJson(name) ==
    Len(name) >= 5 /\ SubSeq(name, Len(name) - 4, Len(name)) = ".json"

\* C3: the candidate list is exactly the member names whose last five
\* characters are ".json", in listing order.
C3_SuffixCandidates ==
    (pc \in {"select", "prompt", "extract"}) =>
        tar_files = SelectSeq(tar_contents, EndsWithDotJson)

\* C4: when read_tarfile_object has handed its outcome to the caller after
\* creating the temporary file, the unlink was attempted after the body
\* ended and before the delivery, and the caller got the body's own value
\* or exception, also when the unlink failed (logged as a warning).
C4_TempFileCleanup ==
    /\ (entry = "read_tarfile_object" /\ Occurs("create") /\ delivered # NoOutcome) =>
           /\ InOrder("body_end", "unlink", "deliver")
           /\ outcome # NoOutcome
           /\ delivered = outcome
    /\ (entry = "read_tarfile_object" /\ Occurs("warning")) =>
           /\ temp = "exists"
           /\ delivered = outcome
    /\ (entry = "read_tarfile_object" /\ Occurs("create") /\ ~Occurs("unlink")) =>
           delivered = NoOutcome

C4_Witness ==
    /\ pc = "done" /\ entry = "read_tarfile_object"
    /\ Occurs("warning") /\ temp = "exists"
    /\ delivered = Raise("JSONDecodeError")

(***************************************************************************)
(* Properties of extract_tar_contents and extract_tar_object               *)
(***************************************************************************)
HasDotDot(name) == \E i \in 1..Len(SplitPath(name)) : SplitPath(name)[i] = ".."

Unsafe(dir, name) == HasDotDot(name) \/ ~IsUnder(Resolve(PathJoin(dir, name)), Resolve(dir))

\* C5: when an output directory is given and a selected member's name has a
\* ".." segment or resolves outside the output directory, no member is ever
\* written and the call ends in a path-safety error.
C5_PathSafety ==
    (/\ xpc \in {"extractall", "finally", "done"}
     /\ Truthy(xoutput_dir)
     /\ ~(xresult.kind = "raise" /\ xresult.val \in {"ReadError", "StreamError"})
     /\ \E i \in 1..Len(xselected) : Unsafe(xoutput_dir[1], xselected[i]))
    => /\ disk = {}
       /\ xresult.kind # "return"

(***************************************************************************)
(* Properties of read_file_object                                          *)
(***************************************************************************)
\* C6: for a seekable stream holding the serialization of a document d,
\* whatever the read position it was handed over at, read_file_object
\* returns a value equal to d.
C6_RoundTrip ==
    (spc = "done" /\ stream.seekable) =>
        (sresult.kind = "return" /\ sresult.val = doc)

C6_Witness ==
    /\ spc = "done" /\ stream.seekable /\ stream.mode = "binary"
    /\ doc.t = "obj" /\ DOMAIN doc.o = Keys
    /\ Len(content) > Len(Dumps(doc))
    /\ stream.handed_at > 0 /\ stream.handed_at < Len(stream.data)
    /\ sresult.kind = "return" /\ sresult.val = doc

(***************************************************************************)
(* Properties of load_config and get_message_type_description              *)
(***************************************************************************)
Returned == cpc \in {"loaded", "described"}

HasSetting(cfg, sec, key) ==
    /\ cfg.t = "dict" /\ sec \in DOMAIN cfg.d
    /\ cfg.d[sec].t = "dict" /\ key \in DOMAIN cfg.d[sec].d

FileSupplies(file, sec, key) == file.kind = "json" /\ HasSetting(file.val, sec, key)

\* The file gives the whole section a value that is not a mapping.
SectionReplaced(file, sec) ==
    /\ file.kind = "json" /\ file.val.t = "dict"
    /\ sec \in DOMAIN file.val.d /\ file.val.d[sec].t # "dict"

IsSet(env, var) == env[var] # <<>>

\* The value of a set variable, as an integer for the port and as a
\* boolean for the overwrite flag.
EnvValue(o, str) ==
    IF Convert(o.conv, str).ok THEN Convert(o.conv, str).val ELSE PyStr(str)

\* C7: in a returned config every environment-overridable setting has the
\* value of its environment variable when that variable is set, otherwise
\* the config file's value when the file supplies the key, otherwise the
\* default; in particular a set variable wins over the file.  (Settings
\* whose whole section the file replaces by a non-mapping are left aside.)
C7_LayerPrecedence ==
    Returned =>
        \A i \in 1..Len(EnvOverrides) :
            LET o == EnvOverrides[i]
                expected ==
                    IF IsSet(environ, o.var) THEN EnvValue(o, environ[o.var][1])
                    ELSE IF FileSupplies(config_file, o.section, o.key)
                         THEN config_file.val.d[o.section].d[o.key]
                    ELSE DEFAULT_CONFIG.d[o.section].d[o.key]
            IN ~SectionReplaced(config_file, o.section) =>
                  /\ HasSetting(config, o.section, o.key)
                  /\ config.d[o.section].d[o.key] = expected

SuppliedNested(sec, key) ==
    \/ FileSupplies(config_file, sec, key)
    \/ SectionReplaced(config_file, sec)
    \/ /\ sec = "message_types"
       /\ \/ FileSupplies(message_types_file, sec, key)
          \/ SectionReplaced(message_types_file, sec)
    \/ \E i \in 1..Len(EnvOverrides) :
          /\ EnvOverrides[i].section = sec /\ EnvOverrides[i].key = key
          /\ IsSet(environ, EnvOverrides[i].var)

SuppliedTop(key) ==
    \E file \in {config_file, message_types_file} :
        file.kind = "json" /\ file.val.t = "dict" /\ key \in DOMAIN file.val.d

\* C8: in a returned config every key of DEFAULT_CONFIG is present, and
\* every nested key (each field of database, output and logging, each
\* message type) and the default format keep their default value unless
\* the config file, the message-types file or the environment supplies a
\* value for that very key (or replaces the whole section); a
\* message-types file naming some types leaves the other defaults.
C8_DefaultKeysSurvive ==
    Returned =>
        \A k \in DOMAIN DEFAULT_CONFIG.d :
            /\ k \in DOMAIN config.d
            /\ IF DEFAULT_CONFIG.d[k].t = "dict"
               THEN \A j \in DOMAIN DEFAULT_CONFIG.d[k].d :
                        ~SuppliedNested(k, j) =>
                            /\ HasSetting(config, k, j)
                            /\ config.d[k].d[j] = DEFAULT_CONFIG.d[k].d[j]
               ELSE ~SuppliedTop(k) => config.d[k] = DEFAULT_CONFIG.d[k]

\* C9: whatever the two file arguments name and whatever strings the
\* environment variables hold (POSTGRES_PORT unset, empty or a number),
\* load_config returns a config and raises nothing.
C9_OptionalFilesNotFatal ==
    (/\ cpc # "idle"
     /\ \/ ~IsSet(environ, "POSTGRES_PORT")
        \/ environ["POSTGRES_PORT"][1] = ""
        \/ ParseInt(environ["POSTGRES_PORT"][1]) # <<>>)
    => /\ cerror = ""
       /\ Returned

\* C10: for every config load_config returned and every raw type,
\* get_message_type_description returns a string and raises nothing.
C10_DescriptionTotal ==
    cpc = "described" =>
        /\ description.kind = "return"
        /\ description.val.t = "str"

IsKnownType(cfg, mt) ==
    /\ "message_types" \in DOMAIN cfg.d
    /\ cfg.d["message_types"].t = "dict"
    /\ mt \in DOMAIN cfg.d["message_types"].d

\* The default format of cfg is a string in which the raw type can be
\* substituted.
HasUsableFormat(cfg, mt) ==
    /\ "message_types" \in DOMAIN cfg.d
    /\ cfg.d["message_types"].t = "dict"
    /\ "default_message_format" \in DOMAIN cfg.d
    /\ cfg.d["default_message_format"].t = "str"
    /\ FormatFrom(cfg.d["default_message_format"].s, 1, mt).ok

\* C11: the description is "Unknown message type" for an empty or absent
\* raw type; otherwise the entry of message_types when the raw type is one
\* of its keys; otherwise the default format with the raw type substituted.
\* Under the default config "RichText/Location" gives "***Sent a
\* location***" and "Totally/Unknown" gives "***Sent a Totally/Unknown***".
C11_DescriptionResult ==
    cpc = "described" =>
        /\ (msg_type = <<>> \/ msg_type = <<"">>) =>
               description = DReturn(PyStr("Unknown message type"))
        /\ (msg_type # <<>> /\ msg_type # <<"">> /\ IsKnownType(config, msg_type[1])) =>
               description = DReturn(config.d["message_types"].d[msg_type[1]])
        /\ (/\ msg_type # <<>> /\ msg_type # <<"">>
            /\ ~IsKnownType(config, msg_type[1])
            /\ HasUsableFormat(config, msg_type[1])) =>
               description = DReturn(PyStr(
                   FormatFrom(config.d["default_message_format"].s, 1, msg_type[1]).out))
        /\ (config = DEFAULT_CONFIG /\ msg_type = <<"RichText/Location">>) =>
               description = DReturn(PyStr("***Sent a location***"))
        /\ (config = DEFAULT_CONFIG /\ msg_type = <<"Totally/Unknown">>) =>
               description = DReturn(PyStr("***Sent a Totally/Unknown***"))

(***************************************************************************)
(* The interactive fallback of read_tarfile                                *)
(***************************************************************************)
PromptEntered == pc = "prompt" \/ Occurs("prompt")

\* C12: the prompt is entered only when auto_select is false, there is more
\* than one candidate and select_json is absent or out of range, so never
\* under the default auto_select = True; and a round of the prompt either
\* stays in the prompt, after an input that is no number in 1..|J|, or goes
\* on to the extraction with the index of a number in 1..|J|, or ends the
\* call with an exception: no value is returned for a rejected input.
C12_PromptOnlyWhenAsked ==
    /\ [](PromptEntered =>
            /\ ~auto_select
            /\ Len(tar_files) > 1
            /\ ~InRange(select_json, tar_files))
    /\ [][pc = "prompt" =>
            \/ /\ pc' = "prompt"
               /\ outcome' = NoOutcome
               /\ selected_index' = <<>> \/ ~InRange(selected_index', tar_files)
            \/ /\ pc' = "extract"
               /\ outcome' = NoOutcome
               /\ InRange(selected_index', tar_files)
            \/ /\ pc' \in {"finally", "done"}
               /\ outcome'.kind = "raise"]_vars

C12_Witness ==
    /\ pc = "done" /\ entry = "read_tarfile" /\ Occurs("prompt")
    /\ ~auto_select /\ select_json = <<0 - 1>>
    /\ prompts = MaxPrompts
    /\ selected_index = <<1>> /\ delivered = Return(tar_files[2])

(***************************************************************************)
(* The two modes of extract_tar_contents                                   *)
(***************************************************************************)
\* The members whose names the pattern matches, in archive order; every
\* member when no pattern is given.
Matching(members, pat) ==
    IF pat = <<>> THEN members
    ELSE LET Keep(name) == PatternMatch(pat[1], name)
         IN SelectSeq(members, Keep)

\* C13: without an output_dir argument a call never changes the files or
\* the directories and returns the names of the matching members in archive
\* order; with an output_dir argument a call that returns has created the
\* directory, has extracted exactly the matching members and returns
\* output_dir joined with each of their names.
C13_DryRunByPresence ==
    /\ [][(xpc # "idle" /\ xoutput_dir = <<>>) => UNCHANGED <<disk, dirs>>]_vars
    /\ [](xpc \in {"finally", "done"} /\ xresult.kind = "return" =>
            LET M == Matching(xmembers, xpattern)
            IN IF xoutput_dir = <<>>
               THEN /\ disk = {}
                    /\ xresult.val = M
               ELSE LET dir == xoutput_dir[1]
                    IN /\ Resolve(dir) \in dirs
                       /\ disk = {TargetOf(xfilter, dir, M[i]) : i \in 1..Len(M)}
                       /\ xresult.val = [i \in 1..Len(M) |-> PathJoin(dir, M[i])])

(***************************************************************************)
(* Properties of load_config on objects                                    *)
(***************************************************************************)
\* The addresses reached from the dict at address a.
RECURSIVE Reach(_, _)
Reach(h, a) ==
    {a} \cup UNION {Reach(h, h[a][k].ref) : k \in {x \in DOMAIN h[a] : h[a][x].ref # 0}}

Plain(call) ==
    /\ call.file = NoFile /\ call.mtfile = NoFile
    /\ \A v \in EnvVars : call.env[v] = <<>>

\* C14: whatever calls of load_config were made and whatever the callers
\* did to the configs returned, DEFAULT_CONFIG has its built-in value, no
\* returned config reaches an object of DEFAULT_CONFIG or of another
\* returned config, and a config returned by load_config() without files
\* and environment, which its caller did not touch, equals the defaults.
C14_DefaultsIsolated ==
    /\ ValueAt(heap, CellRef(DefaultAddr)) = DEFAULT_CONFIG
    /\ \A i \in 1..Len(calls) :
          calls[i].root # 0 =>
             /\ Reach(heap, calls[i].root) \cap Reach(heap, DefaultAddr) = {}
             /\ \A j \in 1..Len(calls) :
                   (j # i /\ calls[j].root # 0) =>
                      Reach(heap, calls[i].root) \cap Reach(heap, calls[j].root) = {}
             /\ (Plain(calls[i]) /\ ~calls[i].mutated) =>
                   ValueAt(heap, CellRef(calls[i].root)) = DEFAULT_CONFIG

C14_Witness ==
    /\ Len(calls) = 2
    /\ ~Plain(calls[1]) /\ calls[1].root # 0 /\ calls[1].mutated
    /\ "extra" \in DOMAIN heap[calls[1].root]
    /\ ValueAt(heap, heap[calls[1].root]["extra"]) = PyDict("k" :> PyStr("changed"))
    /\ ValueAt(heap, heap[calls[1].root]["database"]).d["host"] = PyStr("changed")
    /\ Plain(calls[2]) /\ calls[2].later /\ ~calls[2].mutated
    /\ ValueAt(heap, CellRef(calls[2].root)) = DEFAULT_CONFIG
====
